---- MODULE Spec2Model ----
(***************************************************************************)
(* Model of mesh2Tile's adaptive octree tiling (BlenderScripts/            *)
(* adaptiveTiling.py, adaptiveTilingWorker.py), of its adaptive texture    *)
(* sizing (BlenderScripts/bakeSingleTile.py, bakeTextures.py), of the      *)
(* tileset hierarchy (pipeline/createTilesetJson.py), of the batch run    *)
(* and of the per-tile baking and tileset steps of one model               *)
(* (mesh2tile.py).                                                         *)
(*                                                                         *)
(* A mesh is a sequence of triangles with integer vertex coordinates; a    *)
(* fragment (Blender object) is a name and the sequence of the root mesh's *)
(* face indices it holds.  Object names are sequences of the fields that   *)
(* name.split('_') yields.  Real-valued comparisons are made exactly, on   *)
(* cross-multiplied integers.                                              *)
(***************************************************************************)
EXTENDS Integers, Sequences, FiniteSets, TLC

\* ------------------------------------------------------------------ bounds
MaxFaces == 3
MaxThreshold == 2
MaxLevelBound == 2

\* -------------------------------------------------------------- mesh data
\* Triangles the input mesh is drawn from: three vertices <<x, y, z>> each.
\* 1, 2 lie in the low corner, 3 in the high corner, 4 on the high-x side;
\* 5 and 6 are distinct triangles whose centroid is the same point (2,2,2).
Tris ==
  << << <<0,0,0>>, <<1,0,0>>, <<0,1,0>> >>,
     << <<1,1,1>>, <<2,1,1>>, <<1,2,1>> >>,
     << <<4,4,4>>, <<3,4,4>>, <<4,3,4>> >>,
     << <<4,0,0>>, <<3,0,0>>, <<4,1,0>> >>,
     << <<1,1,2>>, <<3,1,2>>, <<2,4,2>> >>,
     << <<2,1,2>>, <<3,3,2>>, <<1,2,2>> >> >>

\* Names the imported root object can carry (the OBJ's object name).
RootNames == { <<"model">>, <<"3", "bldg">> }

VARIABLES
  mesh,                 \* the root mesh: face index -> index into Tris
  TRIANGLE_THRESHOLD,   \* triangle threshold of the run
  MAX_TILE_LEVEL,       \* maximum tile level of the run
  worklist,             \* pending calls of process_object_adaptive, next first
  exported,             \* the tiles written so far, in order
  total_exported,
  total_decimated,
  triangle_count_cache, \* set of <<key, count>>
  created_directories,  \* set of TileLevel_ folder levels
  visited,              \* number of calls of process_object_adaptive made
  lastSplit,            \* the last call of bisect_object_octree and its result
  phase,                \* "tiling", "done", or "sizing" (texture sizing)
  texIn,                \* input of the texture sizing functions
  texOut,               \* their results
  flat_tileset,         \* createTilesetJson: the uris of the flat root's children
  final_tileset,        \* createTilesetJson: the tileset written, or the error
  batch,                \* mesh2tile.main: arguments, counters and exit code
  workers,              \* first-split-only mode: the worker processes
  bake                  \* process_single_obj: the per-tile bake of one model

vars == << mesh, TRIANGLE_THRESHOLD, MAX_TILE_LEVEL, worklist, exported,
           total_exported, total_decimated, triangle_count_cache,
           created_directories, visited, lastSplit, phase, texIn, texOut,
           flat_tileset, final_tileset, batch, workers, bake >>

tilingVars == << mesh, TRIANGLE_THRESHOLD, MAX_TILE_LEVEL, worklist, exported,
                 total_exported, total_decimated, triangle_count_cache,
                 created_directories, visited, lastSplit >>

pipelineVars == << flat_tileset, final_tileset, batch, workers, bake >>

\* --------------------------------------------------------- small helpers
Min(S) == CHOOSE x \in S : \A y \in S : x <= y
Max(S) == CHOOSE x \in S : \A y \in S : x >= y
Range(s) == { s[i] : i \in 1..Len(s) }

\* str(n) and int(s) for the numbers that occur in tile names
NumStr == << "0", "1", "2", "3", "4", "5", "6", "7", "8", "9", "10",
             "11", "12", "13", "14", "15", "16" >>
Str(n) == NumStr[n + 1]
IsDigit(s) == \E n \in 1..Len(NumStr) : NumStr[n] = s
ParseInt(s) == (CHOOSE n \in 1..Len(NumStr) : NumStr[n] = s) - 1

\* ------------------------------------------------------------- geometry
FaceVerts(f) == Range(Tris[mesh[f]])
VertsOf(faces) == UNION { FaceVerts(faces[i]) : i \in 1..Len(faces) }

\* get_bounds: <<min, max>> per axis over the fragment's vertices
get_bounds(faces) ==
  [ a \in 1..3 |-> << Min({ v[a] : v \in VertsOf(faces) }),
                      Max({ v[a] : v \in VertsOf(faces) }) >> ]

\* Sum of the three vertex coordinates of face f on axis a (3 * centroid)
CentroidSum(f, a) ==
  LET t == Tris[mesh[f]] IN t[1][a] + t[2][a] + t[3][a]

\* the octant test with <= for <: a centroid on the midpoint goes to octant 0
OctantAxis_tie0(f, b, a) ==
  IF 2 * CentroidSum(f, a) <= 3 * (b[a][1] + b[a][2]) THEN 0 ELSE 1

\* dx = 0 if centroid.x < x_mid else 1, with centroid = sum/3 and
\* x_mid = (min + max)/2
OctantAxis(f, b, a) ==
  IF 2 * CentroidSum(f, a) < 3 * (b[a][1] + b[a][2]) THEN 0 ELSE 1

OctantOf(f, b) == << OctantAxis(f, b, 1), OctantAxis(f, b, 2), OctantAxis(f, b, 3) >>

\* for dx in range(2): for dy in range(2): for dz in range(2)
OctantOrder ==
  << <<0,0,0>>, <<0,0,1>>, <<0,1,0>>, <<0,1,1>>,
     <<1,0,0>>, <<1,0,1>>, <<1,1,0>>, <<1,1,1>> >>

\* octant_faces with the z comparison lost: a face lands in two octants
octant_faces_noz(faces, b, o) ==
  LET InOct(f) == OctantOf(f, b)[1] = o[1] /\ OctantOf(f, b)[2] = o[2]
  IN SelectSeq(faces, InOct)

\* octant_faces[(dx, dy, dz)]: the faces assigned to an octant, in face order
octant_faces(faces, b, o) ==
  LET InOct(f) == OctantOf(f, b) = o IN SelectSeq(faces, InOct)

\* bm_chunk.faces.new raises ValueError when a face on the same vertices was
\* already created in the chunk; such a face is skipped.
RECURSIVE CreateFaces(_, _)
CreateFaces(face_list, acc) ==
  IF face_list = << >> THEN acc
  ELSE LET f == Head(face_list)
           exists == \E i \in 1..Len(acc) : FaceVerts(acc[i]) = FaceVerts(f)
       IN IF exists THEN CreateFaces(Tail(face_list), acc)
          ELSE CreateFaces(Tail(face_list), Append(acc, f))

\* the chunk name without the y and z indices
ChunkName_xonly(tile_level, ix, iy, iz) == << Str(tile_level), Str(ix), "0", "0" >>

\* f"{tile_level}_{new_ix}_{new_iy}_{new_iz}"
ChunkName(tile_level, ix, iy, iz) == << Str(tile_level), Str(ix), Str(iy), Str(iz) >>

\* ChildIndex without the doubling of the parent index
ChildIndex_nodouble(i, d) == i + d

\* new_ix = ix * 2 + dx
ChildIndex(i, d) == i * 2 + d

\* The material index of face f of the imported mesh: every face has a
\* material of its own.
MaterialOf(f) == f - 1

\* An un-decimated object: name and faces; all faces are triangles.
\* material_index is the material index of each polygon, in polygon order.
MakeObj(name, faces) ==
  [ name |-> name, faces |-> faces,
    nverts |-> Cardinality(VertsOf(faces)), npolys |-> Len(faces),
    material_index |-> [ i \in 1..Len(faces) |-> MaterialOf(faces[i]) ] ]

\* face_materials[face_idx]: the material index of obj's polygon for face f
FaceMaterial(obj, f) ==
  obj.material_index[CHOOSE i \in 1..Len(obj.faces) : obj.faces[i] = f]

\* the material tracked for every face of face_list, created or not
CreatedFacesMaterials_all(obj, face_list, acc, mats) ==
  [ i \in 1..Len(face_list) |-> FaceMaterial(obj, face_list[i]) ]

\* created_faces_materials after the loop over face_list: the material is
\* appended after bm_chunk.faces.new succeeded, not when it raised ValueError
RECURSIVE CreatedFacesMaterials(_, _, _, _)
CreatedFacesMaterials(obj, face_list, acc, mats) ==
  IF face_list = << >> THEN mats
  ELSE LET f == Head(face_list)
           exists == \E i \in 1..Len(acc) : FaceVerts(acc[i]) = FaceVerts(f)
       IN IF exists THEN CreatedFacesMaterials(obj, Tail(face_list), acc, mats)
          ELSE CreatedFacesMaterials(obj, Tail(face_list), Append(acc, f),
                                     Append(mats, FaceMaterial(obj, f)))

\* for face_idx, mat_idx in enumerate(created_faces_materials):
\*     if face_idx < len(me.polygons): me.polygons[face_idx].material_index = mat_idx
\* (a polygon that is assigned nothing keeps material index 0)
PolygonMaterials(npolys, created_faces_materials) ==
  [ i \in 1..npolys |->
      IF i <= Len(created_faces_materials) THEN created_faces_materials[i] ELSE 0 ]

\* bisect_object_octree: the non-empty chunks in octant order
bisect_object_octree(obj, tile_level, ix, iy, iz) ==
  LET b == get_bounds(obj.faces)
      chunkOf(k) ==
        LET o == OctantOrder[k]
            face_list == octant_faces(obj.faces, b, o)
            created == CreateFaces(face_list, << >>)
            created_faces_materials ==
              CreatedFacesMaterials(obj, face_list, << >>, << >>)
        IN [ MakeObj(ChunkName(tile_level, ChildIndex(ix, o[1]), ChildIndex(iy, o[2]),
                               ChildIndex(iz, o[3])), created)
               EXCEPT !.material_index =
                        PolygonMaterials(Len(created), created_faces_materials) ]
      all == [ k \in 1..8 |-> chunkOf(k) ]
      NonEmpty(c) == Len(c.faces) > 0
  IN SelectSeq(all, NonEmpty)

\* Whether some face creation of a bisect of these faces fails
SomeFaceCreationFails(faces) ==
  \E i, j \in 1..Len(faces) : i < j /\ FaceVerts(faces[i]) = FaceVerts(faces[j])

\* ------------------------------------------------------- names and levels
\* get_tile_level_from_name: int(parts[0]) if parts[0].isdigit() else 0
get_tile_level_from_name(obj_name) ==
  IF Len(obj_name) >= 1 /\ IsDigit(obj_name[1]) THEN ParseInt(obj_name[1]) ELSE 0

\* clean_object_name: obj_name.replace('_decimated', '')
clean_object_name(obj_name) ==
  LET Keep(i) == i = 1 \/ obj_name[i] # "decimated"
      idx == { i \in 1..Len(obj_name) : Keep(i) }
      RECURSIVE Build(_)
      Build(i) == IF i > Len(obj_name) THEN << >>
                  ELSE IF i \in idx THEN << obj_name[i] >> \o Build(i + 1)
                  ELSE Build(i + 1)
  IN Build(1)

\* the coarse tile always named as the root's "0_0_0_0_decimated"
DecimatedName_root(tile_level, ix, iy, iz) ==
  << "0", "0", "0", "0", "decimated" >>

\* f"{tile_level}_{ix}_{iy}_{iz}_decimated"
DecimatedName(tile_level, ix, iy, iz) ==
  << Str(tile_level), Str(ix), Str(iy), Str(iz), "decimated" >>

\* ------------------------------------------------------ triangle counting
\* the cache keyed by the object name alone
CacheKey_nameonly(obj) == << obj.name, 0, 0 >>

\* cache_key = (obj.name, len(obj.data.vertices), len(obj.data.polygons))
CacheKey(obj) == << obj.name, obj.nverts, obj.npolys >>

\* get_triangle_count: the cached value for the key, else the recount
get_triangle_count(cache, obj) ==
  IF \E e \in cache : e[1] = CacheKey(obj)
  THEN (CHOOSE e \in cache : e[1] = CacheKey(obj))[2]
  ELSE obj.npolys

\* the cache after get_triangle_count(obj)
CacheAfter(cache, obj) ==
  IF \E e \in cache : e[1] = CacheKey(obj) THEN cache
  ELSE cache \cup { << CacheKey(obj), obj.npolys >> }

\* duplicate_object: same geometry under a new name
duplicate_object(obj, new_name) == [ obj EXCEPT !.name = new_name ]

\* Triangle counts the Decimate modifier can leave for a target: the ratio
\* based reduction is not re-verified and may end just above or below it.
DecimateResults(target) == { n \in { target - 1, target, target + 1 } : n >= 1 }

\* decimate_object: unchanged when already at or below the target; else the
\* modifier is applied, leaving n triangles (a strip of n triangles).
decimate_object(cache, obj, target, n) ==
  IF get_triangle_count(cache, obj) <= target THEN obj
  ELSE [ obj EXCEPT !.faces = << >>, !.npolys = n, !.nverts = n + 2,
                    !.material_index = << >> ]

\* whether decimate_object applied the modifier (total_decimated += 1)
Decimates(cache, obj, target) == get_triangle_count(cache, obj) > target

\* the cache after decimate_object(obj, target) returning res
CacheAfterDecimate(cache, obj, target, res) ==
  IF Decimates(cache, obj, target)
  THEN CacheAfter(CacheAfter(cache, obj), res)
  ELSE CacheAfter(cache, obj)

\* -------------------------------------------------------------- exporting
\* The file export_object_test writes for obj, kept with the call it was
\* written in (frame), the outcome of that call ("leaf", "decimate", "split"),
\* whether the Decimate modifier had been applied to obj, the triangle count
\* get_triangle_count returns for obj and the polygons obj has at that time
ExportRecord(cache, obj, frame, outcome, decimated) ==
  [ folder    |-> get_tile_level_from_name(obj.name),
    name      |-> clean_object_name(obj.name),
    triangles |-> get_triangle_count(cache, obj),
    polygons  |-> obj.npolys,
    decimated |-> decimated,
    unchanged |-> obj = frame.obj,
    outcome   |-> outcome,
    level     |-> frame.tile_level,
    ix        |-> frame.ix, iy |-> frame.iy, iz |-> frame.iz,
    fragment_triangles |-> frame.obj.npolys ]

\* export_object_test that writes the file only when it creates the folder
export_object_test_newdir(st, rec) ==
  [ exported |-> IF rec.folder \in st.created_directories THEN st.exported
                 ELSE Append(st.exported, rec),
    created_directories |-> st.created_directories \cup { rec.folder },
    total_exported |-> st.total_exported + 1 ]

\* export_object_test on st = [exported, created_directories, total_exported]:
\* the tile folder is created, the file written, total_exported += 1
export_object_test(st, rec) ==
  [ exported |-> Append(st.exported, rec),
    created_directories |-> st.created_directories \cup { rec.folder },
    total_exported |-> st.total_exported + 1 ]

ExportState ==
  [ exported |-> exported, created_directories |-> created_directories,
    total_exported |-> total_exported ]

\* the threshold test off by one
IsLeaf_offbyone(triangle_count) == triangle_count <= TRIANGLE_THRESHOLD + 1

\* if triangle_count <= TRIANGLE_THRESHOLD
IsLeaf(triangle_count) == triangle_count <= TRIANGLE_THRESHOLD

\* the max-level test with > for >=
AtMaxLevel_strict(tile_level) == tile_level > MAX_TILE_LEVEL

\* the max-level test lost
AtMaxLevel_never(tile_level) == FALSE

\* if tile_level >= max_level
AtMaxLevel(tile_level) == tile_level >= MAX_TILE_LEVEL

\* bisect_object_octree(obj, tile_level + 1, ix, iy, iz)
NextLevel(tile_level) == tile_level + 1

\* A call process_object_adaptive(obj, tile_level, ix, iy, iz); parent is the
\* fragment the call was made from (<< >> for the root call)
Frame(obj, tile_level, ix, iy, iz, parent) ==
  [ obj |-> obj, tile_level |-> tile_level, ix |-> ix, iy |-> iy, iz |-> iz,
    parent |-> parent ]

\* (tile_level, ix, iy, iz) of a call
FrameId(frame) == << frame.tile_level, frame.ix, frame.iy, frame.iz >>

\* for chunk in chunks: parts = chunk.name.split('_'); if len(parts) >= 4:
\*     process_object_adaptive(chunk, int(parts[0]), ..., int(parts[3]))
ChunkCalls(chunks, parent) ==
  LET Named(c) == Len(c.name) >= 4
      named == SelectSeq(chunks, Named)
  IN [ k \in 1..Len(named) |->
         Frame(named[k], ParseInt(named[k].name[1]), ParseInt(named[k].name[2]),
               ParseInt(named[k].name[3]), ParseInt(named[k].name[4]), parent) ]

\* The state of the later pipeline steps in a run that does not reach them
NoBatch == batch = << >> /\ workers = << >> /\ bake = << >>

NoPipeline == flat_tileset = << >> /\ final_tileset = << >> /\ NoBatch

\* ------------------------------------------------------------------- Init
\* The meshes of 1..MaxFaces faces, each face one of Tris (the same triangle
\* twice is a duplicate face), faces listed in the order of Tris
Meshes ==
  { m \in UNION { [ 1..n -> 1..Len(Tris) ] : n \in 1..MaxFaces } :
      \A i \in 1..(Len(m) - 1) : m[i] <= m[i + 1] }

Init ==
  /\ mesh \in Meshes
  /\ TRIANGLE_THRESHOLD \in 1..MaxThreshold
  /\ MAX_TILE_LEVEL \in 0..MaxLevelBound
  /\ \E rootName \in RootNames :
       LET root == MakeObj(rootName, [ i \in 1..Len(mesh) |-> i ])
       IN /\ worklist = << Frame(root, 0, 0, 0, 0, << >>) >>
          /\ triangle_count_cache = { << CacheKey(root), root.npolys >> }
  /\ exported = << >>
  /\ total_exported = 0
  /\ total_decimated = 0
  /\ created_directories = {}
  /\ visited = 0
  /\ lastSplit = << >>
  /\ phase = "tiling"
  /\ texIn = << >>
  /\ texOut = << >>
  /\ NoPipeline

\* ---------------------------------------------------------------- actions
\* process_object_adaptive, triangle_count <= TRIANGLE_THRESHOLD:
\* export the fragment as it is
LeafExport ==
  /\ phase = "tiling" /\ worklist # << >>
  /\ IsLeaf(get_triangle_count(triangle_count_cache, Head(worklist).obj))
  /\ \E frame \in { Head(worklist) } :
     \E c1 \in { CacheAfter(triangle_count_cache, frame.obj) } :
     \E st \in { export_object_test(ExportState,
                   ExportRecord(c1, frame.obj, frame, "leaf", FALSE)) } :
        /\ exported' = st.exported
        /\ created_directories' = st.created_directories
        /\ total_exported' = st.total_exported
        /\ triangle_count_cache' = c1
        /\ worklist' = Tail(worklist)
        /\ visited' = visited + 1
  /\ UNCHANGED << mesh, TRIANGLE_THRESHOLD, MAX_TILE_LEVEL, total_decimated,
                  lastSplit, phase, texIn, texOut, pipelineVars >>

\* process_object_adaptive, over the threshold at tile_level >= max_level:
\* decimate the fragment in place and export it
DecimateAndExport ==
  /\ phase = "tiling" /\ worklist # << >>
  /\ ~IsLeaf(get_triangle_count(triangle_count_cache, Head(worklist).obj))
  /\ AtMaxLevel(Head(worklist).tile_level)
  /\ \E n \in DecimateResults(TRIANGLE_THRESHOLD) :
     \E frame \in { Head(worklist) } :
     \E c1 \in { CacheAfter(triangle_count_cache, frame.obj) } :
     \E res \in { decimate_object(c1, frame.obj, TRIANGLE_THRESHOLD, n) } :
     \E did \in { Decimates(c1, frame.obj, TRIANGLE_THRESHOLD) } :
     \E c2 \in { CacheAfterDecimate(c1, frame.obj, TRIANGLE_THRESHOLD, res) } :
     \E st \in { export_object_test(ExportState,
                   ExportRecord(c2, res, frame, "decimate", did)) } :
        /\ exported' = st.exported
        /\ created_directories' = st.created_directories
        /\ total_exported' = st.total_exported
        /\ triangle_count_cache' = c2
        /\ total_decimated' = total_decimated + (IF did THEN 1 ELSE 0)
        /\ worklist' = Tail(worklist)
        /\ visited' = visited + 1
  /\ UNCHANGED << mesh, TRIANGLE_THRESHOLD, MAX_TILE_LEVEL, lastSplit, phase,
                  texIn, texOut, pipelineVars >>

\* SplitAndRecurse without the export of the coarse tile before the bisect
SplitAndRecurse_noexport ==
  /\ phase = "tiling" /\ worklist # << >>
  /\ ~IsLeaf(get_triangle_count(triangle_count_cache, Head(worklist).obj))
  /\ ~AtMaxLevel(Head(worklist).tile_level)
  /\ \E frame \in { Head(worklist) } :
     \E c1 \in { CacheAfter(triangle_count_cache, frame.obj) } :
     \E chunks \in { bisect_object_octree(frame.obj, NextLevel(frame.tile_level),
                                          frame.ix, frame.iy, frame.iz) } :
        /\ triangle_count_cache' = c1
        /\ lastSplit' = << [ parent |-> FrameId(frame), faces |-> frame.obj.faces,
                             chunks |-> chunks ] >>
        /\ worklist' = ChunkCalls(chunks, FrameId(frame)) \o Tail(worklist)
        /\ visited' = visited + 1
  /\ UNCHANGED << mesh, TRIANGLE_THRESHOLD, MAX_TILE_LEVEL, phase, texIn, texOut,
                  pipelineVars, exported, created_directories, total_exported,
                  total_decimated >>

\* process_object_adaptive, over the threshold below max_level: export a
\* decimated copy, bisect the original, and call on each chunk in order
SplitAndRecurse ==
  /\ phase = "tiling" /\ worklist # << >>
  /\ ~IsLeaf(get_triangle_count(triangle_count_cache, Head(worklist).obj))
  /\ ~AtMaxLevel(Head(worklist).tile_level)
  /\ \E n \in DecimateResults(TRIANGLE_THRESHOLD) :
     \E frame \in { Head(worklist) } :
     \E c1 \in { CacheAfter(triangle_count_cache, frame.obj) } :
     \E dup \in { duplicate_object(frame.obj,
                    DecimatedName(frame.tile_level, frame.ix, frame.iy, frame.iz)) } :
     \E res \in { decimate_object(c1, dup, TRIANGLE_THRESHOLD, n) } :
     \E did \in { Decimates(c1, dup, TRIANGLE_THRESHOLD) } :
     \E c2 \in { CacheAfterDecimate(c1, dup, TRIANGLE_THRESHOLD, res) } :
     \E st \in { export_object_test(ExportState,
                   ExportRecord(c2, res, frame, "split", did)) } :
     \E chunks \in { bisect_object_octree(frame.obj, NextLevel(frame.tile_level),
                                          frame.ix, frame.iy, frame.iz) } :
        /\ exported' = st.exported
        /\ created_directories' = st.created_directories
        /\ total_exported' = st.total_exported
        /\ triangle_count_cache' = c2
        /\ total_decimated' = total_decimated + (IF did THEN 1 ELSE 0)
        /\ lastSplit' = << [ parent |-> FrameId(frame), faces |-> frame.obj.faces,
                             chunks |-> chunks ] >>
        /\ worklist' = ChunkCalls(chunks, FrameId(frame)) \o Tail(worklist)
        /\ visited' = visited + 1
  /\ UNCHANGED << mesh, TRIANGLE_THRESHOLD, MAX_TILE_LEVEL, phase, texIn, texOut, pipelineVars >>

\* run_adaptive_tiling_test: the root call has returned
Finish ==
  /\ phase = "tiling" /\ worklist = << >>
  /\ phase' = "done"
  /\ UNCHANGED << tilingVars, texIn, texOut, pipelineVars >>

Next == LeafExport \/ DecimateAndExport \/ SplitAndRecurse \/ Finish

Spec == Init /\ [][Next]_vars

\* ======================================================================
\* First-split-only mode and the worker processes (adaptiveTiling.py,
\* adaptiveTilingWorker.py)
\* ======================================================================
\* A worker process started on a chunk file: its own globals, its pending
\* calls of process_object_adaptive, and the tiles it has written.
StartWorker(chunk) ==
  [ argv |-> << ParseInt(chunk.name[1]), ParseInt(chunk.name[2]),
                ParseInt(chunk.name[3]), ParseInt(chunk.name[4]) >>,
    status |-> "running",
    worklist |-> << Frame(chunk, ParseInt(chunk.name[1]), ParseInt(chunk.name[2]),
                          ParseInt(chunk.name[3]), ParseInt(chunk.name[4]), << >>) >>,
    exported |-> << >>,
    total_exported |-> 0,
    total_decimated |-> 0,
    triangle_count_cache |-> { << CacheKey(chunk), chunk.npolys >> },
    created_directories |-> {} ]

\* the export state of a worker
WorkerExportState(wk) ==
  [ exported |-> wk.exported, created_directories |-> wk.created_directories,
    total_exported |-> wk.total_exported ]

\* The worker's process_object_adaptive on its next pending call; n is the
\* triangle count the Decimate modifier leaves if it is applied.
WorkerCall(wk, n) ==
  LET frame == Head(wk.worklist)
      count == get_triangle_count(wk.triangle_count_cache, frame.obj)
      c1 == CacheAfter(wk.triangle_count_cache, frame.obj)
  IN IF IsLeaf(count)
     THEN LET st == export_object_test(WorkerExportState(wk),
                      ExportRecord(c1, frame.obj, frame, "leaf", FALSE))
          IN [ wk EXCEPT !.exported = st.exported,
                         !.created_directories = st.created_directories,
                         !.total_exported = st.total_exported,
                         !.triangle_count_cache = c1,
                         !.worklist = Tail(@) ]
     ELSE IF AtMaxLevel(frame.tile_level)
     THEN LET res == decimate_object(c1, frame.obj, TRIANGLE_THRESHOLD, n)
              did == Decimates(c1, frame.obj, TRIANGLE_THRESHOLD)
              c2 == CacheAfterDecimate(c1, frame.obj, TRIANGLE_THRESHOLD, res)
              st == export_object_test(WorkerExportState(wk),
                      ExportRecord(c2, res, frame, "decimate", did))
          IN [ wk EXCEPT !.exported = st.exported,
                         !.created_directories = st.created_directories,
                         !.total_exported = st.total_exported,
                         !.total_decimated = @ + (IF did THEN 1 ELSE 0),
                         !.triangle_count_cache = c2,
                         !.worklist = Tail(@) ]
     ELSE LET dup == duplicate_object(frame.obj,
                       DecimatedName(frame.tile_level, frame.ix, frame.iy, frame.iz))
              res == decimate_object(c1, dup, TRIANGLE_THRESHOLD, n)
              did == Decimates(c1, dup, TRIANGLE_THRESHOLD)
              c2 == CacheAfterDecimate(c1, dup, TRIANGLE_THRESHOLD, res)
              st == export_object_test(WorkerExportState(wk),
                      ExportRecord(c2, res, frame, "split", did))
              chunks == bisect_object_octree(frame.obj, NextLevel(frame.tile_level),
                                             frame.ix, frame.iy, frame.iz)
          IN [ wk EXCEPT !.exported = st.exported,
                         !.created_directories = st.created_directories,
                         !.total_exported = st.total_exported,
                         !.total_decimated = @ + (IF did THEN 1 ELSE 0),
                         !.triangle_count_cache = c2,
                         !.worklist = ChunkCalls(chunks, FrameId(frame)) \o Tail(@) ]


\* run_adaptive_tiling_test about to start with --first-split-only: the
\* imported root object is the pending work
InitParallel ==
  /\ mesh \in Meshes
  /\ TRIANGLE_THRESHOLD \in 1..MaxThreshold
  /\ MAX_TILE_LEVEL \in 1..MaxLevelBound
  /\ LET root == MakeObj(<< "model" >>, [ i \in 1..Len(mesh) |-> i ])
     IN /\ worklist = << Frame(root, 0, 0, 0, 0, << >>) >>
        /\ triangle_count_cache = { << CacheKey(root), root.npolys >> }
  /\ exported = << >>
  /\ total_exported = 0
  /\ total_decimated = 0
  /\ created_directories = {}
  /\ visited = 0
  /\ lastSplit = << >>
  /\ phase = "first_split"
  /\ texIn = << >> /\ texOut = << >>
  /\ flat_tileset = << >> /\ final_tileset = << >> /\ batch = << >>
  /\ workers = << >> /\ bake = << >>

\* run_adaptive_tiling_test, FIRST_SPLIT_ONLY: a root over the threshold is
\* exported decimated as 0_0_0_0 and bisected, and one worker is started on
\* each chunk file; a root within the threshold is exported as it is.
FirstSplit ==
  /\ phase = "first_split"
  /\ \E n \in DecimateResults(TRIANGLE_THRESHOLD) :
     \E frame \in { Head(worklist) } :
     \E c1 \in { CacheAfter(triangle_count_cache, frame.obj) } :
       IF get_triangle_count(triangle_count_cache, frame.obj) > TRIANGLE_THRESHOLD
       THEN \E dup \in { duplicate_object(frame.obj, DecimatedName(0, 0, 0, 0)) } :
            \E res \in { decimate_object(c1, dup, TRIANGLE_THRESHOLD, n) } :
            \E did \in { Decimates(c1, dup, TRIANGLE_THRESHOLD) } :
            \E c2 \in { CacheAfterDecimate(c1, dup, TRIANGLE_THRESHOLD, res) } :
            \E st \in { export_object_test(ExportState,
                          ExportRecord(c2, res, frame, "split", did)) } :
            \E chunks \in { bisect_object_octree(frame.obj, 1, 0, 0, 0) } :
              /\ exported' = st.exported
              /\ created_directories' = st.created_directories
              /\ total_exported' = st.total_exported
              /\ triangle_count_cache' = c2
              /\ total_decimated' = total_decimated + (IF did THEN 1 ELSE 0)
              /\ lastSplit' = << [ parent |-> FrameId(frame),
                                   faces |-> frame.obj.faces, chunks |-> chunks ] >>
              /\ workers' = [ k \in 1..Len(chunks) |-> StartWorker(chunks[k]) ]
              /\ phase' = "workers"
       ELSE \E st \in { export_object_test(ExportState,
                          ExportRecord(c1, frame.obj, frame, "leaf", FALSE)) } :
              /\ exported' = st.exported
              /\ created_directories' = st.created_directories
              /\ total_exported' = st.total_exported
              /\ triangle_count_cache' = c1
              /\ phase' = "done"
              /\ UNCHANGED << total_decimated, lastSplit, workers >>
  /\ worklist' = << >>
  /\ UNCHANGED << mesh, TRIANGLE_THRESHOLD, MAX_TILE_LEVEL, visited, texIn, texOut,
                  flat_tileset, final_tileset, batch, bake >>

\* the variables a worker process cannot touch
notWorkers ==
  << tilingVars, phase, texIn, texOut, flat_tileset, final_tileset, batch, bake >>

\* a worker makes its next call of process_object_adaptive
WorkerProcess ==
  /\ phase = "workers"
  /\ \E w \in 1..Len(workers) :
       /\ workers[w].status = "running" /\ workers[w].worklist # << >>
       /\ \E n \in DecimateResults(TRIANGLE_THRESHOLD) :
            workers' = [ workers EXCEPT ![w] = WorkerCall(workers[w], n) ]
  /\ UNCHANGED notWorkers

\* run_worker returns: the worker's chunk is done
WorkerFinish ==
  /\ phase = "workers"
  /\ \E w \in 1..Len(workers) :
       /\ workers[w].status = "running" /\ workers[w].worklist = << >>
       /\ workers' = [ workers EXCEPT ![w].status = "done" ]
  /\ UNCHANGED notWorkers

\* a worker process dies part-way; what it has written stays
WorkerFail ==
  /\ phase = "workers"
  /\ \E w \in 1..Len(workers) :
       /\ workers[w].status = "running" /\ workers[w].worklist # << >>
       /\ workers' = [ workers EXCEPT ![w].status = "failed" ]
  /\ UNCHANGED notWorkers

NextParallel == FirstSplit \/ WorkerProcess \/ WorkerFinish \/ WorkerFail

SpecParallel == InitParallel /\ [][NextParallel]_vars

\* ======================================================================
\* Adaptive texture sizing (bakeSingleTile.py, bakeTextures.py)
\* ======================================================================
MaxTexLevel == 6
MaxRaw == 1100

\* source_texture_pixels and base_texture_size of the metadata states drawn
SourcePixels == { 65536, 1048576, 16777216, 67108864 }
BaseResolutions == { 128, 512, 1024, 2048 }

\* Naturals beyond 2^31, as little-endian sequences of limbs below 10000
\* with no leading zero limb; reduction factors such as 2.828 ** 6 need them.
RECURSIVE Big(_)
Big(n) == IF n = 0 THEN << >> ELSE << n % 10000 >> \o Big(n \div 10000)

RECURSIVE BigMulC(_, _, _)
BigMulC(a, m, c) ==
  IF a = << >> THEN Big(c)
  ELSE LET t == Head(a) * m + c
       IN << t % 10000 >> \o BigMulC(Tail(a), m, t \div 10000)

\* a * m for a small natural m
BigMul(a, m) == IF m = 0 THEN << >> ELSE BigMulC(a, m, 0)

BigLess(a, b) ==
  IF Len(a) # Len(b) THEN Len(a) < Len(b)
  ELSE \E i \in 1..Len(a) :
         a[i] < b[i] /\ \A j \in (i + 1)..Len(a) : a[j] = b[j]

\* a * m ** k
RECURSIVE BigMulPow(_, _, _)
BigMulPow(a, m, k) == IF k = 0 THEN a ELSE BigMulPow(BigMul(a, m), m, k - 1)

RECURSIVE Pow(_, _)
Pow(b, e) == IF e = 0 THEN 1 ELSE b * Pow(b, e - 1)

\* A real value as the exact fraction num / den
Rat(n, d) == [ num |-> Big(n), den |-> Big(d) ]
RatLessInt(v, n) == BigLess(v.num, BigMul(v.den, n))     \* v < n
IntLessRat(n, v) == BigLess(BigMul(v.den, n), v.num)     \* n < v

\* value - lower <= upper - value: the tie goes to the lower power
CloserToLower_tie(value, lower, upper) ==
  ~BigLess(BigMul(value.den, lower + upper), BigMul(value.num, 2))

\* if value - lower < upper - value
CloserToLower(value, lower, upper) ==
  BigLess(BigMul(value.num, 2), BigMul(value.den, lower + upper))

\* clamp_to_power_of_2(value, min_size, max_size)
clamp_to_power_of_2(value, min_size, max_size) ==
  LET v1 == IF RatLessInt(value, max_size) THEN value ELSE Rat(max_size, 1)
      v  == IF IntLessRat(min_size, v1) THEN v1 ELSE Rat(min_size, 1)
      \* int(math.log2(value)); value is within [32, 1024] here
      power == Max({ q \in 0..11 : ~RatLessInt(v, Pow(2, q)) })
      lower == Pow(2, power)
      upper == Pow(2, power + 1)
      result == IF CloserToLower(v, lower, upper) THEN lower ELSE upper
      r1 == IF result < max_size THEN result ELSE max_size
  IN IF min_size < r1 THEN r1 ELSE min_size

\* the loop with "if cumulative_pixels > source_texture_pixels: return level"
RECURSIVE BudgetLoop_strict(_, _, _, _)
BudgetLoop_strict(cumulative_pixels, level, source_texture_pixels, base_resolution) ==
  IF cumulative_pixels < source_texture_pixels /\ level < 10
  THEN LET tiles_at_level == IF level > 0 THEN Pow(8, level) ELSE 1
           pixels_per_tile == base_resolution * base_resolution
           c2 == cumulative_pixels + tiles_at_level * pixels_per_tile
       IN IF c2 > source_texture_pixels THEN level
          ELSE BudgetLoop_strict(c2, level + 1, source_texture_pixels, base_resolution)
  ELSE level

\* calculate_budget_exhausted_level with the strict comparison
calculate_budget_exhausted_level_strict(source_texture_pixels, base_resolution) ==
  BudgetLoop_strict(0, 0, source_texture_pixels, base_resolution)

\* calculate_budget_exhausted_level: the while loop from (cumulative, level)
RECURSIVE BudgetLoop(_, _, _, _)
BudgetLoop(cumulative_pixels, level, source_texture_pixels, base_resolution) ==
  IF cumulative_pixels < source_texture_pixels /\ level < 10
  THEN LET tiles_at_level == IF level > 0 THEN Pow(8, level) ELSE 1
           pixels_per_tile == base_resolution * base_resolution
           c2 == cumulative_pixels + tiles_at_level * pixels_per_tile
       IN IF c2 >= source_texture_pixels THEN level
          ELSE BudgetLoop(c2, level + 1, source_texture_pixels, base_resolution)
  ELSE level

calculate_budget_exhausted_level(source_texture_pixels, base_resolution) ==
  BudgetLoop(0, 0, source_texture_pixels, base_resolution)

\* base_resolution * reduction_factor: the factor multiplied, not divided by
reduced_resolution_times(base_resolution, levels_past_budget) ==
  [ num |-> BigMulPow(Big(base_resolution), 2828, levels_past_budget),
    den |-> BigMulPow(Big(1), 1000, levels_past_budget) ]

\* reduced_resolution = base_resolution / 2.828 ** levels_past_budget
reduced_resolution(base_resolution, levels_past_budget) ==
  [ num |-> BigMulPow(Big(base_resolution), 1000, levels_past_budget),
    den |-> BigMulPow(Big(1), 2828, levels_past_budget) ]

\* get_adaptive_texture_size with level 0 sized as the other levels within budget
get_adaptive_texture_size_level0base(tile_name, source_texture_pixels, total_estimated_tiles, base_resolution) ==
  LET tile_level == ParseInt(tile_name[1])
      budget_level ==
        calculate_budget_exhausted_level(source_texture_pixels, base_resolution)
  IN IF tile_level <= budget_level THEN base_resolution
     ELSE clamp_to_power_of_2(
            reduced_resolution(base_resolution, tile_level - budget_level), 32, 1024)

\* get_adaptive_texture_size
get_adaptive_texture_size(tile_name, source_texture_pixels, total_estimated_tiles, base_resolution) ==
  LET tile_level == ParseInt(tile_name[1])
      budget_level ==
        calculate_budget_exhausted_level(source_texture_pixels, base_resolution)
  IN IF tile_level = 0 THEN 1024
     ELSE IF tile_level <= budget_level THEN base_resolution
     ELSE clamp_to_power_of_2(
            reduced_resolution(base_resolution, tile_level - budget_level), 32, 1024)

\* The tiling state of a run that only sizes textures
NoTiling ==
  /\ mesh = << >> /\ TRIANGLE_THRESHOLD = 0 /\ MAX_TILE_LEVEL = 0
  /\ worklist = << >> /\ exported = << >> /\ total_exported = 0
  /\ total_decimated = 0 /\ triangle_count_cache = {}
  /\ created_directories = {} /\ visited = 0 /\ lastSplit = << >>

\* texture_metadata.json as load_texture_metadata returns it
MetadataStates ==
  [ source_texture_pixels : SourcePixels, estimated_tiles : {1},
    base_texture_size : BaseResolutions ]

\* The bake of a set of tiles against one texture_metadata.json: texIn is the
\* metadata, texOut the texture size chosen for each tile sized so far.
InitTex ==
  /\ NoTiling /\ NoPipeline
  /\ phase = "sizing"
  /\ texIn \in MetadataStates
  /\ texOut = {}

\* bake_single_tile: the texture size of one tile, metadata loaded
SizeTile ==
  /\ phase = "sizing"
  /\ \E level \in 0..MaxTexLevel :
       LET tile_name == ChunkName(level, 0, 0, 0)
       IN /\ \A e \in texOut : e.tile_name # tile_name
          /\ texOut' = texOut \cup
               { [ tile_name |-> tile_name,
                   size |-> get_adaptive_texture_size(tile_name,
                              texIn.source_texture_pixels, texIn.estimated_tiles,
                              texIn.base_texture_size) ] }
  /\ UNCHANGED << tilingVars, phase, texIn, pipelineVars >>

NextTex == SizeTile

SpecTex == InitTex /\ [][NextTex]_vars

\* ---- loading texture_metadata.json (bake_single_tile with its file search)
\* What one of the four search paths holds: no file, a file json.load fails
\* on, the empty object {}, or a metadata object.  None is the value
\* load_texture_metadata returns when it finds nothing.
NoFile(kind) ==
  [ kind |-> kind, source_texture_pixels |-> 0, estimated_tiles |-> 0,
    base_texture_size |-> 0 ]

None == NoFile("None")

BakeMetadata ==
  { [ kind |-> "metadata", source_texture_pixels |-> m.source_texture_pixels,
      estimated_tiles |-> m.estimated_tiles,
      base_texture_size |-> m.base_texture_size ] :
      m \in { n \in MetadataStates :
                n.source_texture_pixels = 1048576 /\ n.base_texture_size \in {512, 1024} } }

PathStates == { NoFile("absent"), NoFile("unreadable"), NoFile("empty") } \cup BakeMetadata

\* load_texture_metadata from search path i on: the first file that exists
\* and loads, None when there is none
RECURSIVE LoadFrom(_, _)
LoadFrom(search_paths, i) ==
  IF i > Len(search_paths) THEN None
  ELSE IF search_paths[i].kind \in { "absent", "unreadable" }
       THEN LoadFrom(search_paths, i + 1)
       ELSE search_paths[i]

load_texture_metadata(search_paths) == LoadFrom(search_paths, 1)

\* `if metadata:` -- None and {} are false
Truthy(metadata) == metadata.kind \notin { "None", "empty" }

\* the sizing step with the fallback left out: the metadata is subscripted
\* whatever load_texture_metadata returned
texture_size_nofallback(metadata, original_name) ==
  IF metadata.kind \in { "None", "empty" } \/ ~IsDigit(original_name[1])
  THEN [ size |-> 0, raised |-> TRUE ]
  ELSE [ size |-> get_adaptive_texture_size(original_name,
                    metadata.source_texture_pixels, metadata.estimated_tiles,
                    metadata.base_texture_size),
         raised |-> FALSE ]

\* bake_single_tile, "Calculate adaptive texture size": the size chosen, or
\* raised when int(parts[0]) raises ValueError on the tile's name
texture_size(metadata, original_name) ==
  IF Truthy(metadata)
  THEN IF IsDigit(original_name[1])
       THEN [ size |-> get_adaptive_texture_size(original_name,
                         metadata.source_texture_pixels, metadata.estimated_tiles,
                         metadata.base_texture_size),
              raised |-> FALSE ]
       ELSE [ size |-> 0, raised |-> TRUE ]
  ELSE [ size |-> 1024, raised |-> FALSE ]

\* Names of the tiles baked: the OBJ's object name
BakeTileNames ==
  { << "model" >> } \cup { ChunkName(level, 0, 0, 0) : level \in 0..MaxTexLevel }

\* One bake_single_tile process (it bakes one tile): texIn is what the four
\* search paths hold, texOut the sizing of the tile.
InitBake ==
  /\ NoTiling /\ NoPipeline
  /\ phase = "baking"
  /\ texIn \in [ search_paths : [ 1..4 -> PathStates ] ]
  /\ texOut = << >>

BakeTile ==
  /\ phase = "baking" /\ texOut = << >>
  /\ \E original_name \in BakeTileNames :
       LET metadata == load_texture_metadata(texIn.search_paths)
           r == texture_size(metadata, original_name)
       IN texOut' = << [ tile_name |-> original_name, size |-> r.size,
                         raised |-> r.raised ] >>
  /\ UNCHANGED << tilingVars, phase, texIn, pipelineVars >>

NextBake == BakeTile

SpecBake == InitBake /\ [][NextBake]_vars

\* One call of clamp_to_power_of_2 with the default bounds: texIn is the
\* value num / den, texOut the result.
InitClamp ==
  /\ NoTiling /\ NoPipeline
  /\ phase = "clamping"
  /\ texIn = << >>
  /\ texOut = << >>

ClampCall ==
  /\ phase = "clamping" /\ texIn = << >>
  /\ \E n \in 0..MaxRaw, d \in {1, 2} :
       /\ texIn' = [ num |-> n, den |-> d ]
       /\ texOut' = clamp_to_power_of_2(Rat(n, d), 32, 1024)
  /\ UNCHANGED << tilingVars, phase, pipelineVars >>

NextClamp == ClampCall

SpecClamp == InitClamp /\ [][NextClamp]_vars

\* ======================================================================
\* Properties of the adaptive tiling (Spec)
\* ======================================================================
OctantSet == { OctantOrder[k] : k \in 1..8 }

\* How often face f occurs in the chunks
Occurrences(f, chunks) ==
  Cardinality({ ki \in (1..Len(chunks)) \X (1..Len(mesh)) :
                  /\ ki[2] <= Len(chunks[ki[1]].faces)
                  /\ chunks[ki[1]].faces[ki[2]] = f })

\* C1: when no face creation fails, the chunks bisect_object_octree returns
\* partition the fragment's faces: every chunk has at least one face, every
\* face of the fragment is in exactly one chunk, and a chunk holds no other
\* face.
C1_Partition ==
  lastSplit # << >> =>
    LET ls == lastSplit[1]
    IN ~SomeFaceCreationFails(ls.faces) =>
         /\ \A k \in 1..Len(ls.chunks) : Len(ls.chunks[k].faces) >= 1
         /\ \A i \in 1..Len(ls.faces) : Occurrences(ls.faces[i], ls.chunks) = 1
         /\ \A k \in 1..Len(ls.chunks) :
              Range(ls.chunks[k].faces) \subseteq Range(ls.faces)

\* a fragment of three faces without duplicates was bisected into several chunks
C1_Witness ==
  /\ lastSplit # << >>
  /\ ~SomeFaceCreationFails(lastSplit[1].faces)
  /\ Len(lastSplit[1].faces) >= 3
  /\ Len(lastSplit[1].chunks) >= 2

\* C2: every chunk returned for a parent (L, px, py, pz) is named
\* L+1_{2px+dx}_{2py+dy}_{2pz+dz} with dx, dy, dz in {0, 1}, and every call
\* scheduled for a chunk is at the level and coordinates of its name, so its
\* coordinates halved are the parent's.
C2_ChildCoordinates ==
  /\ lastSplit # << >> =>
       LET ls == lastSplit[1]
           p == ls.parent
       IN \A k \in 1..Len(ls.chunks) :
            \E d \in OctantSet :
              ls.chunks[k].name =
                << Str(p[1] + 1), Str(2 * p[2] + d[1]), Str(2 * p[3] + d[2]),
                   Str(2 * p[4] + d[3]) >>
  /\ \A j \in 1..Len(worklist) :
       LET fr == worklist[j]
       IN fr.parent # << >> =>
            /\ fr.tile_level = fr.parent[1] + 1
            /\ fr.ix \div 2 = fr.parent[2] /\ fr.ix - 2 * fr.parent[2] \in {0, 1}
            /\ fr.iy \div 2 = fr.parent[3] /\ fr.iy - 2 * fr.parent[3] \in {0, 1}
            /\ fr.iz \div 2 = fr.parent[4] /\ fr.iz - 2 * fr.parent[4] \in {0, 1}
            /\ fr.obj.name = << Str(fr.tile_level), Str(fr.ix), Str(fr.iy), Str(fr.iz) >>

\* a call is pending for a chunk of a parent that is not at the origin
C2_Witness ==
  \E j \in 1..Len(worklist) :
    /\ worklist[j].parent # << >>
    /\ worklist[j].parent[1] >= 1
    /\ worklist[j].parent[2] >= 1
    /\ worklist[j].ix >= 2

\* C3: a fragment is exported unchanged, without decimation, exactly when its
\* triangle count is <= TRIANGLE_THRESHOLD, whatever its level; so every tile
\* exported without decimation has at most TRIANGLE_THRESHOLD triangles.
C3_LeafIffUnderThreshold ==
  \A i \in 1..Len(exported) :
    LET e == exported[i]
    IN /\ (e.unchanged /\ ~e.decimated) <=> (e.fragment_triangles <= TRIANGLE_THRESHOLD)
       /\ e.unchanged <=> ~e.decimated
       /\ ~e.decimated => e.triangles <= TRIANGLE_THRESHOLD

\* a fragment at or under the threshold was exported unchanged at the maximum
\* level, and a fragment over it was decimated
C3_Witness ==
  /\ \E i \in 1..Len(exported) :
       /\ exported[i].unchanged /\ exported[i].level >= 1
       /\ exported[i].level = MAX_TILE_LEVEL
  /\ \E i \in 1..Len(exported) : exported[i].decimated

\* C4: in a run started at level 0 with max_level >= 0 every tile is exported
\* for a fragment of level <= max_level, and a fragment over the threshold at
\* level >= max_level is decimated in place and exported, never split.
C4_LevelBound ==
  /\ \A i \in 1..Len(exported) :
       LET e == exported[i]
       IN /\ e.level <= MAX_TILE_LEVEL
          /\ (e.fragment_triangles > TRIANGLE_THRESHOLD /\ e.level >= MAX_TILE_LEVEL)
               => e.outcome = "decimate"
          /\ e.outcome = "split" => e.level < MAX_TILE_LEVEL
  /\ \A j \in 1..Len(worklist) : worklist[j].tile_level <= MAX_TILE_LEVEL

\* a fragment over the threshold was decimated at the maximum level, below the root
C4_Witness ==
  \E i \in 1..Len(exported) :
    /\ exported[i].outcome = "decimate"
    /\ exported[i].level = MAX_TILE_LEVEL
    /\ exported[i].level >= 2

\* the calls a step of process_object_adaptive adds to the pending calls
NewCalls == Len(worklist') - (Len(worklist) - 1)

\* The calls that can still follow a pending call at level L: the nodes of a
\* full octree of depth max_level - L.
RECURSIVE OctreeSize(_)
OctreeSize(depth) == IF depth < 0 THEN 0 ELSE 1 + 8 * OctreeSize(depth - 1)

RECURSIVE PendingWork(_)
PendingWork(calls) ==
  IF calls = << >> THEN 0
  ELSE OctreeSize(MAX_TILE_LEVEL - Head(calls).tile_level) + PendingWork(Tail(calls))

\* A bound on the steps a run has left; a natural number.
StepsLeft == PendingWork(worklist) + (IF phase = "tiling" THEN 1 ELSE 0)

\* C5: the recursion terminates: every call made by a call at level L is at
\* level L+1, a call at level >= max_level makes none, a call makes at most 8,
\* and so every step of a run lowers the natural number StepsLeft: no run
\* has infinitely many calls.
C5_Terminates ==
  [][ /\ StepsLeft' < StepsLeft
      /\ (worklist # << >> /\ visited' = visited + 1) =>
           /\ NewCalls \in 0..8
           /\ Head(worklist).tile_level >= MAX_TILE_LEVEL => NewCalls = 0
           /\ \A j \in 1..NewCalls :
                worklist'[j].tile_level = Head(worklist).tile_level + 1 ]_vars

\* a run has ended after a split below the root
C5_Witness ==
  /\ phase = "done"
  /\ lastSplit # << >>
  /\ lastSplit[1].parent[1] >= 1

\* C6: every tile exported for a fragment at (level, ix, iy, iz) is written
\* under the name {level}_{ix}_{iy}_{iz} in TileLevel_{level}, the root
\* fragment included, in all three outcomes.
C6_TileNames ==
  \A i \in 1..Len(exported) :
    LET e == exported[i]
    IN /\ e.name = << Str(e.level), Str(e.ix), Str(e.iy), Str(e.iz) >>
       /\ e.folder = e.level

\* C7: every call of process_object_adaptive exports exactly one tile for its
\* fragment, so total_exported is the number of fragments visited and every
\* split fragment has a tile of its own at its own level.
C7_OneTilePerCall ==
  /\ Len(exported) = visited
  /\ total_exported = visited
  /\ \A i \in 1..Len(exported) :
       LET e == exported[i]
       IN e.outcome = "split" =>
            /\ e.folder = e.level
            /\ e.name = << Str(e.level), Str(e.ix), Str(e.iy), Str(e.iz) >>

\* a run with a split has ended: the split fragment and its chunks have tiles
C7_Witness ==
  /\ phase = "done"
  /\ visited >= 3
  /\ \E i \in 1..Len(exported) : exported[i].outcome = "split" /\ exported[i].level >= 1

\* ======================================================================
\* Tileset hierarchy (pipeline/createTilesetJson.py)
\* ======================================================================
MaxTiles == 4

\* The uris of the tiles a flat tileset can list, as the fields of the file
\* name before ".glb"; "model" is a name parse_tile_id does not accept.
TileUris ==
  { << "0", "0", "0", "0" >>, << "0", "1", "0", "0" >>,
    << "1", "0", "0", "0" >>, << "1", "1", "0", "0" >>, << "1", "2", "0", "0" >>,
    << "2", "1", "1", "0" >>, << "2", "1", "3", "0" >>, << "model" >> }

\* parse_tile_id: <<level, x, y, z>>, or << >> for None
parse_tile_id(uri) ==
  IF Len(uri) = 4 /\ \A i \in 1..4 : IsDigit(uri[i])
  THEN << ParseInt(uri[1]), ParseInt(uri[2]), ParseInt(uri[3]), ParseInt(uri[4]) >>
  ELSE << >>

\* group_tiles_by_level: the parsed tiles in the order their keys enter the
\* dicts (a uri listed again replaces the entry and keeps its place)
RECURSIVE GroupFrom(_, _)
GroupFrom(children, acc) ==
  IF children = << >> THEN acc
  ELSE LET info == parse_tile_id(Head(children))
           entry == [ info |-> info, tile |-> Head(children) ]
           known == \E k \in 1..Len(acc) : acc[k].info = info
       IN GroupFrom(Tail(children),
                    IF info = << >> \/ known THEN acc ELSE Append(acc, entry))

group_tiles_by_level(children) == GroupFrom(children, << >>)

\* tiles_by_level.get(level, {}).items()
LevelItems(tiles_by_level, level) ==
  LET AtLevel(e) == e.info[1] = level
  IN SelectSeq(tiles_by_level, AtLevel)

\* get_geometric_error as the fraction << numerator, denominator >>
get_geometric_error(level) ==
  IF level = 0 THEN << >>
  ELSE IF level = 1 THEN << 1, 10 >>
  ELSE IF level = 2 THEN << 1, 20 >>
  ELSE IF level = 3 THEN << 1, 200 >>
  ELSE << 1, 200 * Pow(2, level - 3) >>

\* the test of build_hierarchy with the y and z comparisons left out
BelongsUnder_xonly(coords, parent_coords) ==
  coords[1] \div 2 = parent_coords[1]

\* if cx // 2 == px and cy // 2 == py and cz // 2 == pz
BelongsUnder(coords, parent_coords) ==
  /\ coords[1] \div 2 = parent_coords[1]
  /\ coords[2] \div 2 = parent_coords[2]
  /\ coords[3] \div 2 = parent_coords[3]

Coords(info) == << info[2], info[3], info[4] >>

RECURSIVE build_hierarchy(_, _, _)
build_hierarchy(current_level, parent_coords, tiles_by_level) ==
  LET next_level == current_level + 1
      Mine(e) == BelongsUnder(Coords(e.info), parent_coords)
      mine == SelectSeq(LevelItems(tiles_by_level, next_level), Mine)
  IN [ k \in 1..Len(mine) |->
         [ content |-> mine[k].tile,
           geometricError |-> get_geometric_error(mine[k].info[1]),
           children |-> build_hierarchy(mine[k].info[1], Coords(mine[k].info),
                                        tiles_by_level) ] ]

\* A bounding volume box as 3d-tiles lists it: the centre and the three
\* half-axis vectors, twelve numbers, here in quarters of a unit.  The boxes
\* drawn are axis-aligned cubes of half-size h / 4.
BoxOfHalfSize(h) == << 0, 0, 0,  h, 0, 0,  0, h, 0,  0, 0, h >>

Boxes == { BoxOfHalfSize(1), BoxOfHalfSize(2), BoxOfHalfSize(8) }

\* calculate_bounding_box_diagonal: 2 * sqrt(hx**2 + hy**2 + hz**2) with
\* hx, hy, hz the lengths of the half axes.  The square roots are not
\* rational: the diagonal d is kept as the fraction d^2 = squared[1] /
\* squared[2] (the box is in quarters, hence the 16).
calculate_bounding_box_diagonal(box) ==
  [ squared |-> << 4 * (  box[4] * box[4] + box[5] * box[5] + box[6] * box[6]
                        + box[7] * box[7] + box[8] * box[8] + box[9] * box[9]
                        + box[10] * box[10] + box[11] * box[11] + box[12] * box[12] ),
                   16 >> ]

\* A node without content (the key is absent) has content << >>.
\* restructure_tileset with the level-0 tile itself made the root
restructure_tileset_rootcontent(children, root_box) ==
  LET tiles_by_level == group_tiles_by_level(children)
      level0 == LevelItems(tiles_by_level, 0)
  IN IF level0 = << >> THEN [ raised |-> "IndexError" ]
     ELSE [ raised |-> "",
            root |-> [ content |-> level0[1].tile,
                       geometricError |-> << 1, 1 >>,
                       children |-> build_hierarchy(0, Coords(level0[1].info),
                                                    tiles_by_level) ] ]

\* restructure_tileset: the tileset written, or the IndexError that
\* list(tiles_by_level[0].values())[0] raises when no level-0 tile parsed;
\* root_box is the bounding volume box of the level-0 tile taken as root
restructure_tileset(children, root_box) ==
  LET tiles_by_level == group_tiles_by_level(children)
      level0 == LevelItems(tiles_by_level, 0)
  IN IF level0 = << >> THEN [ raised |-> "IndexError" ]
     ELSE LET root_info == level0[1].info
              root_tile_data == level0[1].tile
              root_geometric_error == calculate_bounding_box_diagonal(root_box)
              lod0_tile == [ content |-> root_tile_data,
                             geometricError |-> << 1, 1 >>,
                             children |-> build_hierarchy(0, Coords(root_info),
                                                          tiles_by_level) ]
          IN [ raised |-> "",
               root |-> [ content |-> << >>,
                          geometricError |-> root_geometric_error,
                          children |-> << lod0_tile >> ] ]

\* The tiling state of a run of createTilesetJson alone
InitTileset ==
  /\ NoTiling /\ NoBatch
  /\ phase = "tileset"
  /\ texIn = << >> /\ texOut = << >>
  /\ flat_tileset \in UNION { [ 1..n -> TileUris ] : n \in 0..MaxTiles }
  /\ final_tileset = << >>

Restructure ==
  /\ phase = "tileset" /\ final_tileset = << >>
  /\ \E root_box \in Boxes :
       final_tileset' = << restructure_tileset(flat_tileset, root_box) >>
  /\ UNCHANGED << tilingVars, phase, texIn, texOut, flat_tileset, batch, workers, bake >>

NextTileset == Restructure

SpecTileset == InitTileset /\ [][NextTileset]_vars

\* The bounding box of the source mesh has zero volume
DegenerateBounds ==
  LET b == get_bounds([ i \in 1..Len(mesh) |-> i ])
  IN \E a \in 1..3 : b[a][1] = b[a][2]

\* C17: a source mesh that is missing or unreadable, has no vertex, or has a
\* bounding box of zero volume aborts the run: nothing is partitioned and no
\* tile is exported for it.
C17_FatalInputs ==
  (phase \in { "tiling", "done" } /\ (Len(mesh) = 0 \/ DegenerateBounds))
    => exported = << >> /\ lastSplit = << >>

\* C18: across every split each chunk has strictly fewer triangles than the
\* fragment split: its faces are a strict subset of the fragment's faces.
C18_StrictDecrease ==
  lastSplit # << >> =>
    \A k \in 1..Len(lastSplit[1].chunks) :
      /\ lastSplit[1].chunks[k].npolys < Len(lastSplit[1].faces)
      /\ Range(lastSplit[1].chunks[k].faces) \subseteq Range(lastSplit[1].faces)
      /\ Range(lastSplit[1].chunks[k].faces) # Range(lastSplit[1].faces)

\* the tile written for the fragment (level, ix, iy, iz) by its split
CoarseTileAt(j, id) ==
  /\ exported[j].outcome = "split"
  /\ << exported[j].level, exported[j].ix, exported[j].iy, exported[j].iz >> = id
  /\ exported[j].name = ChunkName(id[1], id[2], id[3], id[4])

\* C19: the coarse tile of a split fragment is exported before the fragment
\* is partitioned and before any descendant is processed: a pending call for a
\* chunk finds its parent's tile written, and every tile of level L+1 comes
\* after the tile of its parent at level L.
C19_ParentTileFirst ==
  /\ \A j \in 1..Len(worklist) :
       worklist[j].parent # << >> =>
         \E i \in 1..Len(exported) : CoarseTileAt(i, worklist[j].parent)
  /\ \A i \in 1..Len(exported) :
       exported[i].level >= 1 =>
         \E j \in 1..(i - 1) :
           CoarseTileAt(j, << exported[i].level - 1, exported[i].ix \div 2,
                              exported[i].iy \div 2, exported[i].iz \div 2 >>)
  /\ lastSplit # << >> =>
       \E i \in 1..Len(exported) : CoarseTileAt(i, lastSplit[1].parent)

\* a level-2 tile was exported while a call for a sibling chunk is pending
C19_Witness ==
  /\ \E i \in 1..Len(exported) : exported[i].level = 2
  /\ \E j \in 1..Len(worklist) : worklist[j].parent # << >>

\* ======================================================================
\* Properties of the worker processes (SpecParallel)
\* ======================================================================
\* the tile files in a sequence of exports: folder level and file name
FilesOf(exports) ==
  { << exports[i].folder, exports[i].name >> : i \in 1..Len(exports) }

\* C20: workers started on distinct first-level chunks write pairwise
\* disjoint sets of tile files, none of them the root tile 0_0_0_0 and none
\* a file of the root step, under any interleaving and also when a worker
\* fails part-way.
C20_WorkersDisjoint ==
  phase = "workers" =>
    /\ \A v, w \in 1..Len(workers) :
         v # w => /\ workers[v].argv # workers[w].argv
                  /\ FilesOf(workers[v].exported) \cap FilesOf(workers[w].exported) = {}
    /\ \A w \in 1..Len(workers) :
         /\ FilesOf(workers[w].exported) \cap FilesOf(exported) = {}
         /\ \A i \in 1..Len(workers[w].exported) :
              /\ workers[w].exported[i].name # << "0", "0", "0", "0" >>
              /\ workers[w].exported[i].folder >= 1
         /\ Cardinality(FilesOf(workers[w].exported)) = Len(workers[w].exported)

\* one worker has failed after writing the coarse tile of its chunk, with
\* calls for the chunk's parts pending, and another worker has written a tile
C20_Witness ==
  /\ phase = "workers"
  /\ \E v, w \in 1..Len(workers) :
       /\ v # w
       /\ workers[v].status = "failed"
       /\ Len(workers[v].exported) >= 1
       /\ workers[v].exported[1].outcome = "split"
       /\ Len(workers[w].exported) >= 1

\* ======================================================================
\* Properties of the batch run (SpecBatch)
\* ======================================================================
SomeFileFailed == \E k \in 1..Len(batch.results) : batch.results[k] = "False"

RECURSIVE NodesOf(_)
NodesOf(node) ==
  { node } \cup UNION { NodesOf(node.children[k]) : k \in 1..Len(node.children) }

ChildUris(node) == { node.children[k].content : k \in 1..Len(node.children) }

\* the first level-0 uri of the input that parse_tile_id accepts
FirstLevel0(children) ==
  LET ks == { k \in 1..Len(children) :
                parse_tile_id(children[k]) # << >> /\ parse_tile_id(children[k])[1] = 0 }
  IN children[Min(ks)]

\* C13: the root that restructure_tileset outputs has no content and exactly
\* one child, which carries the content of the level-0 tile; for the input
\* tiles 0_0_0_0, 1_0_0_0, 1_1_0_0 both level-1 tiles are children of it.
C13_StructuralRoot ==
  (phase = "tileset" /\ final_tileset # << >> /\ final_tileset[1].raised = "") =>
    LET root == final_tileset[1].root
    IN /\ root.content = << >>
       /\ Len(root.children) = 1
       /\ root.children[1].content = FirstLevel0(flat_tileset)
       /\ Range(flat_tileset) = { << "0", "0", "0", "0" >>, << "1", "0", "0", "0" >>,
                                  << "1", "1", "0", "0" >> }
            => /\ ChildUris(root.children[1]) =
                    { << "1", "0", "0", "0" >>, << "1", "1", "0", "0" >> }
               /\ Len(root.children[1].children) = 2
               /\ \A k \in 1..2 : root.children[1].children[k].children = << >>

\* the tileset of the three tiles, the level-0 tile listed last, was written
C13_Witness ==
  /\ phase = "tileset"
  /\ flat_tileset = << << "1", "1", "0", "0" >>, << "1", "0", "0", "0" >>,
                       << "0", "0", "0", "0" >> >>
  /\ final_tileset # << >>
  /\ final_tileset[1].raised = ""

\* C14: an input tile at (L+1, cx, cy, cz) is a child of the node for
\* (L, px, py, pz) exactly when cx div 2 = px, cy div 2 = py and cz div 2 = pz:
\* no tile hangs under a node that is not exactly one level above it.
C14_ChildIffHalved ==
  (phase = "tileset" /\ final_tileset # << >> /\ final_tileset[1].raised = "") =>
    \A node \in NodesOf(final_tileset[1].root.children[1]) :
      LET p == parse_tile_id(node.content)
      IN \A k \in 1..Len(flat_tileset) :
           LET c == parse_tile_id(flat_tileset[k])
           IN c # << >> =>
                ( flat_tileset[k] \in ChildUris(node)
                    <=> /\ c[1] = p[1] + 1
                        /\ c[2] \div 2 = p[2]
                        /\ c[3] \div 2 = p[3]
                        /\ c[4] \div 2 = p[4] )

\* a level-2 tile hangs under its level-1 parent while another level-2 tile,
\* whose x halves to that parent's but whose y does not, is left out
C14_Witness ==
  /\ phase = "tileset"
  /\ final_tileset # << >>
  /\ final_tileset[1].raised = ""
  /\ << "2", "1", "3", "0" >> \in Range(flat_tileset)
  /\ \E node \in NodesOf(final_tileset[1].root.children[1]) :
       /\ node.content = << "1", "0", "0", "0" >>
       /\ ChildUris(node) = { << "2", "1", "1", "0" >> }

\* ======================================================================
\* Batch run (mesh2tile.py, main)
\* ======================================================================
MaxFiles == 3

\* What process_single_obj returns: True, False, or None (skipped)
ProcessResults == { "True", "False", "None" }

\* the final test without the continue-on-error flag
ExitsNonZero_anyfailure(failed_count, continue_on_error) == failed_count > 0

\* if failed_count > 0 and not args.continue_on_error: sys.exit(1)
ExitsNonZero(failed_count, continue_on_error) ==
  failed_count > 0 /\ ~continue_on_error

\* main after parse_args; pc is "start", "loop", "summary" or "exited";
\* results lists what process_single_obj returned for the files processed
InitBatch ==
  /\ NoTiling
  /\ phase = "batch"
  /\ texIn = << >> /\ texOut = << >>
  /\ flat_tileset = << >> /\ final_tileset = << >> /\ workers = << >>
  /\ bake = << >>
  /\ \E input_is_dir \in BOOLEAN, continue_on_error \in BOOLEAN,
        obj_files \in 0..MaxFiles :
       batch = [ input_is_dir |-> input_is_dir,
                 continue_on_error |-> continue_on_error,
                 obj_files |-> IF input_is_dir THEN obj_files ELSE 0,
                 results |-> << >>,
                 successful_count |-> 0, failed_count |-> 0, skipped_count |-> 0,
                 pc |-> "start", exit_code |-> 0 ]

\* the input directory is validated and searched for OBJ files
BatchStart ==
  /\ phase = "batch" /\ batch.pc = "start"
  /\ batch' = IF ~batch.input_is_dir \/ batch.obj_files = 0
               THEN [ batch EXCEPT !.pc = "exited", !.exit_code = 1 ]
               ELSE [ batch EXCEPT !.pc = "loop" ]
  /\ UNCHANGED << tilingVars, phase, texIn, texOut, flat_tileset, final_tileset,
                  workers, bake >>

\* one turn of the loop over obj_files
ProcessFile ==
  /\ phase = "batch" /\ batch.pc = "loop"
  /\ \E result \in ProcessResults :
       LET b1 == [ batch EXCEPT
                     !.results = Append(@, result),
                     !.successful_count = @ + (IF result = "True" THEN 1 ELSE 0),
                     !.failed_count = @ + (IF result = "False" THEN 1 ELSE 0),
                     !.skipped_count = @ + (IF result = "None" THEN 1 ELSE 0) ]
           break == result = "False" /\ ~batch.continue_on_error
           last == Len(b1.results) = batch.obj_files
       IN batch' = [ b1 EXCEPT !.pc = IF break \/ last THEN "summary" ELSE "loop" ]
  /\ UNCHANGED << tilingVars, phase, texIn, texOut, flat_tileset, final_tileset,
                  workers, bake >>

\* the summary is printed and main exits
BatchSummary ==
  /\ phase = "batch" /\ batch.pc = "summary"
  /\ batch' = [ batch EXCEPT
                  !.pc = "exited",
                  !.exit_code =
                    IF ExitsNonZero(batch.failed_count, batch.continue_on_error)
                    THEN 1 ELSE 0 ]
  /\ UNCHANGED << tilingVars, phase, texIn, texOut, flat_tileset, final_tileset,
                  workers, bake >>

NextBatch == BatchStart \/ ProcessFile \/ BatchSummary

SpecBatch == InitBatch /\ [][NextBatch]_vars

\* ======================================================================
\* Properties of the texture sizing (SpecTex, SpecClamp)
\* ======================================================================
ValidSizes == { 32, 64, 128, 256, 512, 1024 }

TileLevelOf(e) == ParseInt(e.tile_name[1])

\* C8: for every tile name with a level >= 0 and every metadata state,
\* get_adaptive_texture_size returns one of 32, 64, 128, 256, 512, 1024.
C8_ValidSizes ==
  phase = "sizing" => \A e \in texOut : e.size \in ValidSizes

\* C11: for a level-0 tile get_adaptive_texture_size returns the
\* base_texture_size of the metadata state, whatever that value is.
C11_LevelZeroBase ==
  phase = "sizing" =>
    \A e \in texOut : TileLevelOf(e) = 0 => e.size = texIn.base_texture_size

\* C11 (amended): for a level-0 tile get_adaptive_texture_size returns 1024,
\* whatever the base_texture_size of the metadata state.
C11_LevelZero1024 ==
  phase = "sizing" => \A e \in texOut : TileLevelOf(e) = 0 => e.size = 1024

\* a level-0 tile was sized against a metadata state whose base is not 1024
C11_Witness ==
  /\ phase = "sizing"
  /\ texIn.base_texture_size = 512
  /\ \E e \in texOut : TileLevelOf(e) = 0 /\ e.size = 1024

\* C12: when no texture_metadata.json can be loaded from the output directory
\* or its three parents (load_texture_metadata returns None), every tile is
\* sized 1024, whatever its name or level, and the sizing step raises nothing.
C12_FallbackSize ==
  (phase = "baking" /\ \A i \in 1..4 : texIn.search_paths[i].kind \in { "absent", "unreadable" })
    => \A i \in 1..Len(texOut) : texOut[i].size = 1024 /\ ~texOut[i].raised

\* with an unreadable file and no other, a tile whose name has no level and a
\* deep tile were sized
C12_Witness ==
  /\ phase = "baking"
  /\ texIn.search_paths =
       << NoFile("absent"), NoFile("unreadable"), NoFile("absent"), NoFile("absent") >>
  /\ texOut # << >>
  /\ texOut[1].tile_name \in { << "model" >>, ChunkName(MaxTexLevel, 0, 0, 0) }
  /\ texOut[1].size = 1024

\* C9: for a fixed metadata state the size is non-increasing in the tile
\* level past budget_level: budget_level < L1 < L2 implies size(L2) <= size(L1).
C9_Monotone ==
  phase = "sizing" =>
    LET budget_level ==
          calculate_budget_exhausted_level(texIn.source_texture_pixels,
                                           texIn.base_texture_size)
    IN \A a, b \in texOut :
         (budget_level < TileLevelOf(a) /\ TileLevelOf(a) < TileLevelOf(b))
           => b.size <= a.size

\* two tiles past the budget level were sized, the deeper one smaller
C9_Witness ==
  /\ phase = "sizing"
  /\ \E a, b \in texOut :
       /\ calculate_budget_exhausted_level(texIn.source_texture_pixels,
                                           texIn.base_texture_size) < TileLevelOf(a)
       /\ TileLevelOf(a) < TileLevelOf(b)
       /\ b.size < a.size

Abs(x) == IF x < 0 THEN -x ELSE x

\* C10: clamp_to_power_of_2 returns the power of two nearest to its input
\* clamped to [32, 1024], the upper one when two are equally near: 96 gives 128.
C10_NearestPowerOfTwo ==
  (phase = "clamping" /\ texIn # << >>) =>
    LET d == texIn.den
        n == IF texIn.num < 32 * d THEN 32 * d
             ELSE IF texIn.num > 1024 * d THEN 1024 * d ELSE texIn.num
        r == texOut
        Powers == { Pow(2, q) : q \in 0..12 }
    IN /\ r \in Powers
       /\ \A p \in Powers : Abs(n - r * d) <= Abs(n - p * d)
       /\ \A p \in Powers : (p # r /\ Abs(n - r * d) = Abs(n - p * d)) => p < r
       /\ (texIn.num = 96 * d) => r = 128

\* the call with raw = 96, equally far from 64 and 128, returned 128
C10_Witness ==
  /\ phase = "clamping" /\ texIn # << >>
  /\ texIn.num = 96 /\ texIn.den = 1
  /\ texOut = 128

\* ======================================================================
\* Properties of the caches (Spec)
\* ======================================================================
\* C21: the triangle-count cache and created_directories do not change what
\* a run does: for every pending call get_triangle_count returns what a
\* recount of the fragment's geometry gives, for every exported object (also
\* one decimated in place under its old name) the count it returns is the
\* count of the geometry exported, and every tile's folder has been created.
C21_CachesTransparent ==
  phase \in { "tiling", "done" } =>
    /\ \A j \in 1..Len(worklist) :
         get_triangle_count(triangle_count_cache, worklist[j].obj)
           = worklist[j].obj.npolys
    /\ \A i \in 1..Len(exported) :
         /\ exported[i].triangles = exported[i].polygons
         /\ exported[i].folder \in created_directories

\* a fragment was decimated in place, keeping its name, and exported with a
\* count other than the one cached for it before
C21_Witness ==
  /\ phase \in { "tiling", "done" }
  /\ \E i \in 1..Len(exported) :
       /\ exported[i].outcome = "decimate" /\ exported[i].decimated
       /\ exported[i].level >= 1
       /\ exported[i].triangles # exported[i].fragment_triangles
       /\ \E e \in triangle_count_cache :
            e[1][1] = exported[i].name /\ e[2] = exported[i].fragment_triangles

\* ======================================================================
\* Per-tile baking (mesh2tile.py, process_single_obj, Step 2)
\* ======================================================================
MaxBakeTasks == 3

\* How the future of one bake_single_tile task ends: the worker returns
\* success True, it returns success False (the Blender process exited
\* non-zero, or another exception was caught in the worker), or
\* future.result() raises in the parent (the pool's worker process died).
FutureOutcomes == { "True", "False", "raised" }

\* process_single_obj at "if bake_tasks": the tiles collected, no future yet
InitBakePool ==
  /\ NoTiling
  /\ phase = "bake_tiles"
  /\ texIn = << >> /\ texOut = << >>
  /\ flat_tileset = << >> /\ final_tileset = << >>
  /\ batch = << >> /\ workers = << >>
  /\ \E total_tiles \in 0..MaxBakeTasks :
       bake = [ bake_tasks |-> total_tiles,
                futures |-> << >>,
                completed_count |-> 0,
                failed_tiles |-> << >>,
                reported |-> << >>,
                pc |-> "start", message |-> "" ]

\* futures = {executor.submit(bake_single_tile, task): task for task in
\* bake_tasks}; with no task "No tiles found for baking" is printed
BakeSubmit ==
  /\ phase = "bake_tiles" /\ bake.pc = "start"
  /\ bake' = IF bake.bake_tasks > 0
              THEN [ bake EXCEPT !.futures = [ i \in 1..bake.bake_tasks |-> "pending" ],
                                 !.pc = "await" ]
              ELSE [ bake EXCEPT !.pc = "done", !.message = "none_found" ]
  /\ UNCHANGED << tilingVars, phase, texIn, texOut, flat_tileset, final_tileset,
                  batch, workers >>

\* one turn of "for future in as_completed(futures)": a future that has not
\* been yielded yet completes and its result is handled
BakeFutureDone ==
  /\ phase = "bake_tiles" /\ bake.pc = "await"
  /\ \E i \in 1..Len(bake.futures), outcome \in FutureOutcomes :
       /\ bake.futures[i] = "pending"
       /\ bake' = [ bake EXCEPT
                      !.futures[i] = outcome,
                      !.completed_count = @ + 1,
                      !.reported = IF outcome = "True" THEN @ ELSE Append(@, i),
                      !.failed_tiles = IF outcome = "False" THEN Append(@, i) ELSE @ ]
  /\ UNCHANGED << tilingVars, phase, texIn, texOut, flat_tileset, final_tileset,
                  batch, workers >>

\* the loop has ended: "if failed_tiles: Warning ... else: All tiles baked"
BakeReport ==
  /\ phase = "bake_tiles" /\ bake.pc = "await"
  /\ \A i \in 1..Len(bake.futures) : bake.futures[i] # "pending"
  /\ bake' = [ bake EXCEPT
                 !.pc = "done",
                 !.message = IF bake.failed_tiles # << >> THEN "warning"
                             ELSE "all_baked" ]
  /\ UNCHANGED << tilingVars, phase, texIn, texOut, flat_tileset, final_tileset,
                  batch, workers >>

NextBakePool == BakeSubmit \/ BakeFutureDone \/ BakeReport

SpecBakePool == InitBakePool /\ [][NextBakePool]_vars

\* C22: in per-tile baking every tile of bake_tasks is submitted and awaited
\* whatever the other tiles' outcomes; every tile whose worker fails is
\* reported and recorded in failed_tiles; and "All tiles baked successfully"
\* is printed only when every tile's worker succeeded.
C22_FailedTilesRecorded ==
  (phase = "bake_tiles" /\ bake.pc = "done" /\ bake.bake_tasks > 0) =>
    /\ Len(bake.futures) = bake.bake_tasks
    /\ bake.completed_count = bake.bake_tasks
    /\ \A i \in 1..bake.bake_tasks :
         /\ bake.futures[i] # "pending"
         /\ bake.futures[i] # "True" =>
              i \in Range(bake.reported) /\ i \in Range(bake.failed_tiles)
    /\ bake.message = "all_baked" =>
         \A i \in 1..bake.bake_tasks : bake.futures[i] = "True"

\* ======================================================================
\* The budget level (bakeSingleTile.py, calculate_budget_exhausted_level)
\* ======================================================================
MaxSource == 600

\* The calls drawn: every source_texture_pixels up to MaxSource against a
\* small base_resolution, the pixel counts around the cap of the search
\* against base_resolution 1, and the metadata states of the bake.
BudgetInputs ==
  ((0..MaxSource) \X { 1, 2, 5 })
    \cup ({ 19173961, 19173962, 153391689, 153391690, 200000000 } \X { 1 })
    \cup (SourcePixels \X BaseResolutions)

\* One call of calculate_budget_exhausted_level: texIn is the arguments,
\* texOut the level returned.
InitBudget ==
  /\ NoTiling /\ NoPipeline
  /\ phase = "budget"
  /\ texIn = << >>
  /\ texOut = << >>

BudgetCall ==
  /\ phase = "budget" /\ texIn = << >>
  /\ \E in \in BudgetInputs :
       /\ texIn' = [ source_texture_pixels |-> in[1], base_resolution |-> in[2] ]
       /\ texOut' = calculate_budget_exhausted_level(in[1], in[2])
  /\ UNCHANGED << tilingVars, phase, pipelineVars >>

NextBudget == BudgetCall

SpecBudget == InitBudget /\ [][NextBudget]_vars

\* ======================================================================
\* Properties of the budget level (SpecBudget)
\* ======================================================================
\* 1 + 8 + 8^2 + ... + 8^L
RECURSIVE TilesThrough(_)
TilesThrough(L) == IF L = 0 THEN 1 ELSE Pow(8, L) + TilesThrough(L - 1)

\* base_resolution^2 * (1 + sum of 8^d for d = 1..L) >= source_pixels
BudgetCovers(L, source_pixels, base_resolution) ==
  ~BigLess(BigMul(BigMul(Big(TilesThrough(L)), base_resolution), base_resolution),
           Big(source_pixels))

\* C23: calculate_budget_exhausted_level(source_pixels, base_resolution)
\* returns the smallest level L in 0..9 such that
\* base_resolution^2 * (1 + sum of 8^d for d = 1..L) >= source_pixels, and
\* returns 10 when no level below 10 satisfies it.
C23_SmallestCoveringLevel ==
  (phase = "budget" /\ texIn # << >>) =>
    LET Covering == { L \in 0..9 : BudgetCovers(L, texIn.source_texture_pixels,
                                                texIn.base_resolution) }
    IN IF Covering # {} THEN texOut = Min(Covering) ELSE texOut = 10

\* the search ran to its cap: one pixel more than ten levels of 1x1 tiles hold
C23_Witness ==
  /\ phase = "budget" /\ texIn # << >>
  /\ texIn.source_texture_pixels = 153391690 /\ texIn.base_resolution = 1
  /\ texOut = 10

\* ======================================================================
\* The tile estimate of the texture metadata (adaptiveTiling.py)
\* ======================================================================
\* estimate_total_tiles_for_metadata: the while loop; current_triangles is
\* total_triangles / 8 ** max_depth, compared exactly
RECURSIVE EstimateLoop(_, _, _, _)
EstimateLoop(total_triangles, triangle_threshold, max_depth, estimated_tiles) ==
  IF total_triangles > triangle_threshold * Pow(8, max_depth) /\ max_depth < 10
  THEN LET tiles_at_level == Min({ Pow(8, max_depth + 1),
                                   total_triangles \div triangle_threshold })
       IN EstimateLoop(total_triangles, triangle_threshold, max_depth + 1,
                       estimated_tiles + tiles_at_level)
  ELSE << estimated_tiles, max_depth >>

\* estimate_total_tiles_for_metadata: << estimated_tiles, max_depth >>
estimate_total_tiles_for_metadata(total_triangles, triangle_threshold) ==
  IF total_triangles <= triangle_threshold THEN << 1, 0 >>
  ELSE EstimateLoop(total_triangles, triangle_threshold, 0, 1)

\* C24: the tile count estimate_total_tiles_for_metadata returns for the
\* root mesh's triangle count and the run's threshold is an upper bound on
\* the number of tiles the run of process_object_adaptive exports.
C24_EstimateIsUpperBound ==
  phase \in { "tiling", "done" } =>
    total_exported <= estimate_total_tiles_for_metadata(Len(mesh), TRIANGLE_THRESHOLD)[1]

\* ======================================================================
\* Properties of the octant assignment (Spec)
\* ======================================================================
\* face f's centroid lies exactly on the midpoint of the bounds b on axis a
OnMidpoint(f, b, a) == 2 * CentroidSum(f, a) = 3 * (b[a][1] + b[a][2])

\* the octant digit on axis a that the name of a chunk of parent p carries
NameDigit(chunk, p, a) == ParseInt(chunk.name[a + 1]) - 2 * p[a + 1]

\* C25: bisect_object_octree puts each face in the octant (dx, dy, dz) with
\* dx = 0 exactly when centroid.x < x_mid, and the same for y and z against
\* the midpoint of the bounding box; a face whose centroid lies exactly on
\* the midpoint of an axis goes to octant 1 on that axis.
C25_OctantByCentroid ==
  lastSplit # << >> =>
    LET ls == lastSplit[1]
        b == get_bounds(ls.faces)
    IN \A k \in 1..Len(ls.chunks) : \A i \in 1..Len(ls.chunks[k].faces) :
         \A a \in 1..3 :
           LET f == ls.chunks[k].faces[i]
               d == NameDigit(ls.chunks[k], ls.parent, a)
           IN /\ d \in { 0, 1 }
              /\ d = 0 <=> 2 * CentroidSum(f, a) < 3 * (b[a][1] + b[a][2])
              /\ OnMidpoint(f, b, a) => d = 1

\* a fragment was bisected whose chunk 1_1_1_1 holds a face with its
\* centroid on the midpoint of all three axes, next to a chunk 1_0_0_0
C25_Witness ==
  /\ lastSplit # << >>
  /\ \E k \in 1..Len(lastSplit[1].chunks) :
       /\ lastSplit[1].chunks[k].name = << "1", "1", "1", "1" >>
       /\ \E i \in 1..Len(lastSplit[1].chunks[k].faces) :
            \A a \in 1..3 :
              OnMidpoint(lastSplit[1].chunks[k].faces[i],
                         get_bounds(lastSplit[1].faces), a)
  /\ \E k \in 1..Len(lastSplit[1].chunks) :
       lastSplit[1].chunks[k].name = << "1", "0", "0", "0" >>

\* ======================================================================
\* Properties of the face creation in a chunk (Spec)
\* ======================================================================
\* face number i of the fragment is on the vertices of an earlier face of
\* it: bm_chunk.faces.new raises ValueError for it
FailsCreation(faces, i) ==
  \E j \in 1..(i - 1) : FaceVerts(faces[j]) = FaceVerts(faces[i])

\* C26: when creating a face in a chunk fails, only that face is skipped:
\* every other face of the fragment is in exactly one chunk, in face order,
\* and the material indices of a chunk's polygons are the materials of the
\* faces created, in creation order: the i-th polygon has the material of
\* the i-th created face.
C26_SkippedFaceKeepsAlignment ==
  lastSplit # << >> =>
    LET ls == lastSplit[1]
    IN /\ \A i \in 1..Len(ls.faces) :
            IF FailsCreation(ls.faces, i)
            THEN Occurrences(ls.faces[i], ls.chunks) = 0
            ELSE Occurrences(ls.faces[i], ls.chunks) = 1
       /\ \A k \in 1..Len(ls.chunks) :
            /\ Len(ls.chunks[k].material_index) = Len(ls.chunks[k].faces)
            /\ \A i \in 1..Len(ls.chunks[k].faces) :
                 ls.chunks[k].material_index[i] = MaterialOf(ls.chunks[k].faces[i])
            /\ \A i, j \in 1..Len(ls.chunks[k].faces) :
                 i < j => ls.chunks[k].faces[i] < ls.chunks[k].faces[j]

\* a fragment was bisected in which a face failed to be created and a later
\* face of the same octant was created after it
C26_Witness ==
  /\ lastSplit # << >>
  /\ \E i \in 1..Len(lastSplit[1].faces) :
       /\ FailsCreation(lastSplit[1].faces, i)
       /\ \E k \in 1..Len(lastSplit[1].chunks) :
            /\ Len(lastSplit[1].chunks[k].faces) = 2
            /\ lastSplit[1].chunks[k].faces[1] < lastSplit[1].faces[i]
            /\ lastSplit[1].chunks[k].faces[2] > lastSplit[1].faces[i]

\* ======================================================================
\* Properties of the tile identities (Spec)
\* ======================================================================
\* (level, ix, iy, iz) of the call an export was made in
ExportId(e) == << e.level, e.ix, e.iy, e.iz >>

\* C27: in a sequential run from (0, 0, 0, 0) no two fragments visited or
\* pending have the same (level, ix, iy, iz), so no tile file is written
\* twice and no tile overwrites the output of another.
C27_UniqueTileIds ==
  phase \in { "tiling", "done" } =>
    /\ \A i, j \in 1..Len(exported) :
         i # j => /\ ExportId(exported[i]) # ExportId(exported[j])
                  /\ << exported[i].folder, exported[i].name >>
                       # << exported[j].folder, exported[j].name >>
    /\ \A i, j \in 1..Len(worklist) :
         i # j => FrameId(worklist[i]) # FrameId(worklist[j])
    /\ \A i \in 1..Len(exported) : \A j \in 1..Len(worklist) :
         ExportId(exported[i]) # FrameId(worklist[j])

\* a run has ended that exported tiles of three levels, two of them siblings
C27_Witness ==
  /\ phase = "done"
  /\ \E i, j, k \in 1..Len(exported) :
       /\ exported[i].level = 1 /\ exported[j].level = 2 /\ exported[k].level = 2
       /\ j # k
       /\ exported[i].outcome = "split"

\* ======================================================================
\* The tileset of a tiling run (mesh2tile.py, process_single_obj, Step 5)
\* ======================================================================
\* generate_tileset_json lists the tiles of the run as the children of a
\* flat root, each under the uri of its file name and with a bounding volume
\* box, and restructure_tileset rewrites that tileset.
GenerateAndRestructure ==
  /\ phase = "done" /\ final_tileset = << >>
  /\ flat_tileset' = [ i \in 1..Len(exported) |-> exported[i].name ]
  /\ \E root_box \in Boxes :
       final_tileset' = << restructure_tileset(flat_tileset', root_box) >>
  /\ UNCHANGED << tilingVars, phase, texIn, texOut, batch, workers, bake >>

NextPipeline == Next \/ GenerateAndRestructure

SpecPipeline == Init /\ [][NextPipeline]_vars

\* the uris that have a node in the tree under (and including) a node
ContentsOf(node) == { n.content : n \in NodesOf(node) }

\* C28: every tile exported by a run from (0, 0, 0, 0) appears in the
\* hierarchy restructure_tileset builds from exactly those tiles: for each
\* exported tile at level L >= 1 the tile at (L-1, ix div 2, iy div 2,
\* iz div 2) was exported too, a level-0 tile that parse_tile_id accepts
\* exists, and restructure_tileset does not fail on that input.
C28_RunTilesInHierarchy ==
  (phase = "done" /\ final_tileset # << >>) =>
    /\ final_tileset[1].raised = ""
    /\ \E i \in 1..Len(exported) :
         /\ parse_tile_id(exported[i].name) # << >>
         /\ parse_tile_id(exported[i].name)[1] = 0
    /\ \A i \in 1..Len(exported) :
         exported[i].level >= 1 =>
           \E j \in 1..Len(exported) :
             parse_tile_id(exported[j].name) =
               << exported[i].level - 1, exported[i].ix \div 2,
                  exported[i].iy \div 2, exported[i].iz \div 2 >>
    /\ \A i \in 1..Len(exported) :
         exported[i].name \in ContentsOf(final_tileset[1].root.children[1])

\* ======================================================================
\* Properties of the hierarchy of any flat list (SpecTileset)
\* ======================================================================
\* how many nodes of the trees in a list of nodes carry the uri
RECURSIVE CountInNodes(_, _)
CountInNodes(nodes, uri) ==
  IF nodes = << >> THEN 0
  ELSE (IF Head(nodes).content = uri THEN 1 ELSE 0)
         + CountInNodes(Head(nodes).children, uri)
         + CountInNodes(Tail(nodes), uri)

\* the ids of the input tiles that parse_tile_id accepts
InputIds(children) ==
  { parse_tile_id(children[k]) : k \in 1..Len(children) } \ { << >> }

\* the ancestor m levels above the tile id c: coordinates halved m times
Ancestor(c, m) ==
  << c[1] - m, c[2] \div Pow(2, m), c[3] \div Pow(2, m), c[4] \div Pow(2, m) >>

\* every ancestor of c is an input tile, the level-0 one being the chosen one
ChainPresent(c, children) ==
  /\ \A m \in 1..(c[1] - 1) : Ancestor(c, m) \in InputIds(children)
  /\ Ancestor(c, c[1]) = parse_tile_id(FirstLevel0(children))

\* C29: for any flat list of input tiles restructure_tileset places each
\* input tile at most once in the output tree, and a tile of level L >= 1 is
\* in the output exactly when its whole chain of ancestors down to the
\* chosen level-0 tile is among the input tiles; a tile with a missing
\* ancestor is left out of the output without an error.
C29_TileInOutputIffChain ==
  (phase = "tileset" /\ final_tileset # << >>) =>
    /\ final_tileset[1].raised = "" =>
         \A k \in 1..Len(flat_tileset) :
           CountInNodes(<< final_tileset[1].root >>, flat_tileset[k]) <= 1
    /\ \A k \in 1..Len(flat_tileset) :
         LET c == parse_tile_id(flat_tileset[k])
         IN (c # << >> /\ c[1] >= 1) =>
              /\ final_tileset[1].raised = ""
              /\ flat_tileset[k] \in ContentsOf(final_tileset[1].root.children[1])
                   <=> ChainPresent(c, flat_tileset)

\* ======================================================================
\* Properties of the geometric errors (SpecTileset)
\* ======================================================================
\* the error a / b is at least the error c / d
ErrorAtLeast(parent_error, child_error) ==
  parent_error[1] * child_error[2] >= child_error[1] * parent_error[2]

\* C30: in every tileset restructure_tileset writes, geometricError never
\* increases from a node to its child: the structural root's, the diagonal
\* of the bounding box, is at least the level-0 node's 1.0, and from the
\* level-0 node down every node's is at least each of its children's.
C30_ErrorNeverIncreases ==
  (phase = "tileset" /\ final_tileset # << >> /\ final_tileset[1].raised = "") =>
    LET root == final_tileset[1].root
        lod0 == root.children[1]
    IN /\ lod0.geometricError = << 1, 1 >>
       /\ root.geometricError.squared[1] * lod0.geometricError[2] * lod0.geometricError[2]
            >= root.geometricError.squared[2] * lod0.geometricError[1] * lod0.geometricError[1]
       /\ \A node \in NodesOf(lod0) : \A k \in 1..Len(node.children) :
            ErrorAtLeast(node.geometricError, node.children[k].geometricError)

====
